---- MODULE Spec2Model ----
(***************************************************************************)
(* Model of the AYCF trip planner (src/planner.py): the route history      *)
(* aggregator (_load_runs, _filter_by_lookback, route_counts) and the      *)
(* itinerary scorer (suggest_itineraries), and of the data updater that    *)
(* replaces the planner's directory (src/data_updater.py).  A pandas       *)
(* DataFrame is a sequence of records, in row order.                       *)
(***************************************************************************)
EXTENDS Integers, Sequences, FiniteSets, TLC

(***************************************************************************)
(* Bounds of the model.                                                    *)
(***************************************************************************)
MaxRecords == 5
MaxTopN == 2
MaxOrderRecords == 4
MaxFileRows == 2
MaxTick == 1
MaxTimeRecords == 4
MaxArgsRecords == 3

(***************************************************************************)
(* Days are integers; a timestamp that is missing or unparseable is NaT.   *)
(***************************************************************************)
NaT == -1
Unparseable == -2
Today == 100
RecentDay == 99
OldDay == 10
\* the oldest day a lookback of 30 days admits today
EdgeDay == Today - 30

VARIABLES data_dir, now, argsort_ties, file_count, last_run_count,
          pc, req, outcome, result, prev,
          last_cutoff, last_df, last_counts,
          stamp, upd, upd_result, before

vars == <<data_dir, now, argsort_ties, file_count, last_run_count,
          pc, req, outcome, result, prev,
          last_cutoff, last_df, last_counts,
          stamp, upd, upd_result, before>>

\* the locals cutoff, df and counts of AYCFPlanner.route_counts in the last
\* call; the two frames are released before the next call
locals == <<last_cutoff, last_df, last_counts>>

\* the state of the data updater
updater == <<stamp, upd, upd_result, before>>

(***************************************************************************)
(* Generic sequence helpers.                                               *)
(***************************************************************************)
RECURSIVE Flatten(_)
Flatten(ss) ==
    IF ss = <<>> THEN <<>> ELSE Head(ss) \o Flatten(Tail(ss))

\* faulty variant of Head_n: the cut is not applied
Head_n_uncut(s, n) == s

Head_n(s, n) == IF Len(s) <= n THEN s ELSE SubSeq(s, 1, n)

(***************************************************************************)
(* City names.  Python compares str values by code point; CityRank is that *)
(* order on the names of the model.                                        *)
(***************************************************************************)
CityRank(c) ==
    CASE c = "" -> 0
      [] c = "Budapest" -> 1
      [] c = "Dubai" -> 2
      [] c = "London" -> 3
      [] c = "London (Luton)" -> 4
      [] c = "London Luton" -> 5
      [] c = "Warsaw" -> 6
      [] OTHER -> 7

strip(s) ==
    CASE s = " " -> ""
      [] s = " London Luton " -> "London Luton"
      [] s = "Warsaw " -> "Warsaw"
      [] OTHER -> s

\* faulty variant of CITY_ALIASES: an empty alias table
CITY_ALIASES_none(name) == name

CITY_ALIASES(name) ==
    CASE name = "London Luton" -> "London"
      [] name = "London (Luton)" -> "London"
      [] OTHER -> name

normalise_city(name) == CITY_ALIASES(strip(name))

safe_parse_dt(s) == IF s < 0 THEN NaT ELSE s

(***************************************************************************)
(* numpy argsort behind DataFrame.sort_values(..., ascending=False): the   *)
(* indices of keys in descending key order.  The default kind is           *)
(* 'quicksort', which is not stable, so the arrangement of equal keys is   *)
(* a property of the build: ties keep their row order or come out          *)
(* reversed.                                                               *)
(***************************************************************************)
Before(keys, ties, i, j) ==
    \/ keys[i] > keys[j]
    \/ /\ keys[i] = keys[j]
       /\ IF ties = "kept" THEN i <= j ELSE i >= j

RECURSIVE ArgSortDesc(_, _, _)
ArgSortDesc(keys, ties, S) ==
    IF S = {} THEN <<>>
    ELSE LET first == CHOOSE i \in S : \A j \in S : Before(keys, ties, i, j)
         IN  <<first>> \o ArgSortDesc(keys, ties, S \ {first})

sort_values_desc(df, keys, ties) ==
    LET idx == ArgSortDesc(keys, ties, DOMAIN df)
    IN  [k \in 1..Len(df) |-> df[idx[k]]]

(***************************************************************************)
(* _load_runs: the files of data_dir in sorted path order; a file without  *)
(* the required columns is skipped.                                        *)
(***************************************************************************)
LoadFile(f) ==
    [k \in 1..Len(f.rows) |->
        [departure_from |-> normalise_city(f.rows[k].departure_from),
         departure_to   |-> normalise_city(f.rows[k].departure_to),
         run_ts         |-> safe_parse_dt(f.rows[k].data_generated)]]

Frames(dir) == SelectSeq(dir, LAMBDA f : f.cols)

\* faulty variant of load_outcome: one file without the columns fails the load
load_outcome_strict(dir) ==
    IF dir = <<>> THEN "FileNotFoundError"
    ELSE IF Len(Frames(dir)) < Len(dir) THEN "ValueError"
    ELSE "ok"

load_outcome(dir) ==
    IF dir = <<>> THEN "FileNotFoundError"
    ELSE IF Frames(dir) = <<>> THEN "ValueError"
    ELSE "ok"

load_runs(dir) ==
    LET fs == Frames(dir)
    IN  Flatten([k \in 1..Len(fs) |-> LoadFile(fs[k])])

\* faulty variant of filter_by_lookback: the cutoff is taken a day late
filter_by_lookback_late(df, today, lookback_days) ==
    LET cutoff == today - lookback_days + 1
    IN  SelectSeq(df, LAMBDA r : r.run_ts = NaT \/ r.run_ts >= cutoff)

\* faulty variant of filter_by_lookback: a row without a timestamp is dropped
filter_by_lookback_known(df, today, lookback_days) ==
    LET cutoff == today - lookback_days
    IN  SelectSeq(df, LAMBDA r : r.run_ts # NaT /\ r.run_ts >= cutoff)

filter_by_lookback(df, today, lookback_days) ==
    LET cutoff == today - lookback_days
    IN  SelectSeq(df, LAMBDA r : r.run_ts = NaT \/ r.run_ts >= cutoff)

\* faulty variant of groupby_size: groupby(sort=False), groups in order of appearance
RECURSIVE FirstSeenPairs(_)
FirstSeenPairs(df) ==
    IF df = <<>> THEN <<>>
    ELSE LET p == <<Head(df).departure_from, Head(df).departure_to>>
         IN  <<p>> \o FirstSeenPairs(SelectSeq(Tail(df),
                 LAMBDA r : <<r.departure_from, r.departure_to>> # p))

groupby_size_unsorted(df) ==
    LET keys == FirstSeenPairs(df)
    IN  [k \in 1..Len(keys) |->
            [departure_from |-> keys[k][1],
             departure_to   |-> keys[k][2],
             appearances    |-> Cardinality({i \in DOMAIN df :
                                    /\ df[i].departure_from = keys[k][1]
                                    /\ df[i].departure_to = keys[k][2]})]]

\* faulty variant of groupby_size: nunique(run_ts), a pair counts once per day
groupby_size_per_day(df) ==
    LET keys == FirstSeenPairs(df)
    IN  [k \in 1..Len(keys) |->
            [departure_from |-> keys[k][1],
             departure_to   |-> keys[k][2],
             appearances    |-> Cardinality({df[i].run_ts : i \in
                                    {j \in DOMAIN df :
                                       /\ df[j].departure_from = keys[k][1]
                                       /\ df[j].departure_to = keys[k][2]}})]]

(***************************************************************************)
(* groupby([departure_from, departure_to]).size(): one row per pair, in    *)
(* sorted key order.                                                       *)
(***************************************************************************)
PairLess(p, q) ==
    \/ CityRank(p[1]) < CityRank(q[1])
    \/ /\ p[1] = q[1]
       /\ CityRank(p[2]) < CityRank(q[2])

RECURSIVE SortedPairs(_)
SortedPairs(S) ==
    IF S = {} THEN <<>>
    ELSE LET first == CHOOSE p \in S : \A q \in S \ {p} : PairLess(p, q)
         IN  <<first>> \o SortedPairs(S \ {first})

groupby_size(df) ==
    LET keys == SortedPairs({<<df[k].departure_from, df[k].departure_to>> :
                             k \in DOMAIN df})
    IN  [k \in 1..Len(keys) |->
            [departure_from |-> keys[k][1],
             departure_to   |-> keys[k][2],
             appearances    |-> Cardinality({i \in DOMAIN df :
                                    /\ df[i].departure_from = keys[k][1]
                                    /\ df[i].departure_to = keys[k][2]})]]

counts_of(dir, today, lookback_days, ties) ==
    LET counts == groupby_size(filter_by_lookback(load_runs(dir), today,
                                                  lookback_days))
    IN  sort_values_desc(counts,
                         [k \in 1..Len(counts) |-> counts[k].appearances],
                         ties)

(***************************************************************************)
(* suggest_itineraries, stage by stage.  sel is the record of the three    *)
(* normalised selections.                                                  *)
(***************************************************************************)
selection(names) ==
    {normalise_city(names[k]) :
        k \in {i \in DOMAIN names : strip(names[i]) # ""}}

selections(r) ==
    [bases_set   |-> selection(r.bases),
     hubs_set    |-> selection(r.hubs),
     targets_set |-> selection(r.targets)]

\* faulty variant of leg: only the departure side is matched with the selection
leg_from_only(counts, froms, tos) ==
    SelectSeq(counts, LAMBDA c : c.departure_from \in froms)

leg(counts, froms, tos) ==
    SelectSeq(counts, LAMBDA c : c.departure_from \in froms
                                 /\ c.departure_to \in tos)

\* faulty variant of merge_bh_ht: how="left", a base->hub row without a target is kept
merge_bh_ht_left(counts, sel) ==
    LET bh == leg(counts, sel.bases_set, sel.hubs_set)
        ht == leg(counts, sel.hubs_set, sel.targets_set)
        match(b) == SelectSeq(ht, LAMBDA h : h.departure_from = b.departure_to)
        row(b, t, n) == [base |-> b.departure_from, hub |-> b.departure_to,
                         base_to_hub |-> b.appearances,
                         target |-> t, hub_to_target |-> n]
    IN  Flatten([i \in 1..Len(bh) |->
            IF match(bh[i]) = <<>>
            THEN <<row(bh[i], "", 0)>>
            ELSE [j \in 1..Len(match(bh[i])) |->
                    row(bh[i], match(bh[i])[j].departure_to,
                        match(bh[i])[j].appearances)]])

\* bh.merge(ht, on="hub", how="inner"): left row order, matches in right order
merge_bh_ht(counts, sel) ==
    LET bh == leg(counts, sel.bases_set, sel.hubs_set)
        ht == leg(counts, sel.hubs_set, sel.targets_set)
        match(b) == SelectSeq(ht, LAMBDA h : h.departure_from = b.departure_to)
        row(b, h) == [base |-> b.departure_from, hub |-> b.departure_to,
                      base_to_hub |-> b.appearances,
                      target |-> h.departure_to,
                      hub_to_target |-> h.appearances]
    IN  Flatten([i \in 1..Len(bh) |->
            [j \in 1..Len(match(bh[i])) |-> row(bh[i], match(bh[i])[j])]])

\* The row of merged m with return hub rh and target->hub count n.
with_return(m, rh, n) ==
    [base |-> m.base, hub |-> m.hub, target |-> m.target,
     base_to_hub |-> m.base_to_hub, hub_to_target |-> m.hub_to_target,
     return_hub |-> rh, target_to_hub |-> n]

\* faulty variant of merge_th: how="inner", a row without a return leg is dropped
merge_th_inner(merged, counts, sel) ==
    LET th == leg(counts, sel.targets_set, sel.hubs_set)
        match(m) == SelectSeq(th, LAMBDA t : t.departure_from = m.target)
    IN  Flatten([i \in 1..Len(merged) |->
            [j \in 1..Len(match(merged[i])) |->
                with_return(merged[i], match(merged[i])[j].departure_to,
                            match(merged[i])[j].appearances)]])

\* faulty variant of merge_th: the return_hub column is not filled from hub
merge_th_unfilled(merged, counts, sel) ==
    LET th == leg(counts, sel.targets_set, sel.hubs_set)
        match(m) == SelectSeq(th, LAMBDA t : t.departure_from = m.target)
    IN  Flatten([i \in 1..Len(merged) |->
            IF match(merged[i]) = <<>>
            THEN <<with_return(merged[i], "", 0)>>
            ELSE [j \in 1..Len(match(merged[i])) |->
                    with_return(merged[i], match(merged[i])[j].departure_to,
                                match(merged[i])[j].appearances)]])

\* faulty variant of merge_th: only the best-appearing return hub is joined
merge_th_best(merged, counts, sel) ==
    LET th == leg(counts, sel.targets_set, sel.hubs_set)
        match(m) == SelectSeq(th, LAMBDA t : t.departure_from = m.target)
    IN  [i \in 1..Len(merged) |->
            IF match(merged[i]) = <<>>
            THEN with_return(merged[i], merged[i].hub, 0)
            ELSE with_return(merged[i], match(merged[i])[1].departure_to,
                             match(merged[i])[1].appearances)]

\* merged.merge(th, on="target", how="left") and the two fillna calls
merge_th(merged, counts, sel) ==
    LET th == leg(counts, sel.targets_set, sel.hubs_set)
        match(m) == SelectSeq(th, LAMBDA t : t.departure_from = m.target)
    IN  Flatten([i \in 1..Len(merged) |->
            IF match(merged[i]) = <<>>
            THEN <<with_return(merged[i], merged[i].hub, 0)>>
            ELSE [j \in 1..Len(match(merged[i])) |->
                    with_return(merged[i], match(merged[i])[j].departure_to,
                                match(merged[i])[j].appearances)]])

\* The row of merged m with hub->base count n.
with_hub_to_base(m, n) ==
    [base |-> m.base, hub |-> m.hub, target |-> m.target,
     base_to_hub |-> m.base_to_hub, hub_to_target |-> m.hub_to_target,
     return_hub |-> m.return_hub, target_to_hub |-> m.target_to_hub,
     hub_to_base |-> n]

\* faulty variant of merge_hb: the join is on the outbound hub, not the return hub
merge_hb_on_hub(merged, counts, sel) ==
    LET hb == leg(counts, sel.hubs_set, sel.bases_set)
        match(m) == SelectSeq(hb, LAMBDA h : h.departure_from = m.hub
                                             /\ h.departure_to = m.base)
    IN  [i \in 1..Len(merged) |->
            IF match(merged[i]) = <<>>
            THEN with_hub_to_base(merged[i], 0)
            ELSE with_hub_to_base(merged[i], match(merged[i])[1].appearances)]

\* merged.merge(hb, on=["return_hub", "base"], how="left") and fillna(0)
merge_hb(merged, counts, sel) ==
    LET hb == leg(counts, sel.hubs_set, sel.bases_set)
        match(m) == SelectSeq(hb, LAMBDA h : h.departure_from = m.return_hub
                                             /\ h.departure_to = m.base)
    IN  Flatten([i \in 1..Len(merged) |->
            IF match(merged[i]) = <<>>
            THEN <<with_hub_to_base(merged[i], 0)>>
            ELSE [j \in 1..Len(match(merged[i])) |->
                    with_hub_to_base(merged[i], match(merged[i])[j].appearances)]])

\* faulty variant of return_filter: the filter is not applied
return_filter_off(merged, require_return_to_base) == merged

return_filter(merged, require_return_to_base) ==
    IF require_return_to_base
    THEN SelectSeq(merged, LAMBDA m : m.hub_to_base > 0)
    ELSE merged

\* faulty variant of score_of: the two hub->base weights are exchanged
score_of_swapped(m, require_return_to_base) ==
    1000 * m.base_to_hub + 1000 * m.hub_to_target + 1200 * m.target_to_hub
    + (IF require_return_to_base THEN 300 * m.hub_to_base
                                 ELSE 800 * m.hub_to_base)

\* The score, in thousandths.
score_of(m, require_return_to_base) ==
    1000 * m.base_to_hub + 1000 * m.hub_to_target + 1200 * m.target_to_hub
    + (IF require_return_to_base THEN 800 * m.hub_to_base
                                 ELSE 300 * m.hub_to_base)

\* round(x, 2): thousandths to hundredths, half to even
round2(x) ==
    LET q == x \div 10
        r == x % 10
    IN  IF r < 5 THEN q
        ELSE IF r > 5 THEN q + 1
        ELSE IF q % 2 = 0 THEN q ELSE q + 1

to_dict(m, score) ==
    [itinerary     |-> <<m.base, m.hub, m.target>>,
     return        |-> <<m.target, m.return_hub, m.base>>,
     base_to_hub   |-> m.base_to_hub,
     hub_to_target |-> m.hub_to_target,
     target_to_hub |-> m.target_to_hub,
     hub_to_base   |-> m.hub_to_base,
     score         |-> round2(score)]

\* The rows that survive the joins and the return-to-base filter.
candidates(counts, r) ==
    LET sel == selections(r)
        m12 == merge_bh_ht(counts, sel)
    IN  IF m12 = <<>> THEN <<>>
        ELSE return_filter(merge_hb(merge_th(m12, counts, sel), counts, sel),
                           r.require_return_to_base)

\* faulty variant of ranked: the rows stay in join order, sort_values is left out
ranked_unsorted(counts, r, ties) ==
    LET cand == candidates(counts, r)
    IN  [k \in 1..Len(cand) |->
            to_dict(cand[k], score_of(cand[k], r.require_return_to_base))]

ranked(counts, r, ties) ==
    LET cand == candidates(counts, r)
        score == [k \in 1..Len(cand) |->
                     score_of(cand[k], r.require_return_to_base)]
        idx == ArgSortDesc(score, ties, DOMAIN cand)
    IN  [k \in 1..Len(cand) |-> to_dict(cand[idx[k]], score[idx[k]])]

(***************************************************************************)
(* _filter_by_date, which suggest_itineraries does not call: a dated row   *)
(* is kept when start <= run_ts < end + 1 day, start defaulting to 180     *)
(* days back and end to now.  A date argument is text in YYYY-MM-DD form.  *)
(***************************************************************************)
parse_date(s) ==
    CASE s = "2024-12-01" -> Today
      [] s = "2024-11-01" -> Today - 30
      [] OTHER -> NaT

filter_by_date(df, today, start_date, end_date) ==
    LET start == IF start_date # "" THEN parse_date(start_date)
                 ELSE today - 180
        end == IF end_date # "" THEN parse_date(end_date) + 1
               ELSE today + 1
    IN  SelectSeq(df, LAMBDA r : r.run_ts = NaT
                                 \/ (r.run_ts >= start /\ r.run_ts < end))

\* faulty variant of suggest_itineraries: the rows also pass _filter_by_date
suggest_itineraries_dated(dir, today, r, ties) ==
    LET dated == groupby_size(filter_by_date(
                     filter_by_lookback(load_runs(dir), today, r.lookback_days),
                     today, r.start_date, r.end_date))
        counts == sort_values_desc(dated,
                      [k \in 1..Len(dated) |-> dated[k].appearances], ties)
    IN  Head_n(ranked(counts, r, ties), r.top_n)

suggest_itineraries(dir, today, r, ties) ==
    Head_n(ranked(counts_of(dir, today, r.lookback_days, ties), r, ties),
           r.top_n)

(***************************************************************************)
(* Inputs: the snapshot rows on disk and the arguments of a call.          *)
(***************************************************************************)
Row(f, t, g) == [departure_from |-> f, departure_to |-> t, data_generated |-> g]

File(n, c, rs) == [name |-> n, cols |-> c, rows |-> rs]

RowPool ==
    << Row("Budapest", "Dubai", RecentDay),
       Row("Budapest", "London", NaT),
       Row("Dubai", "Budapest", RecentDay),
       Row("Dubai", "Warsaw", RecentDay),
       Row("London", "Budapest", RecentDay),
       Row("London", "Warsaw", RecentDay),
       Row("Warsaw", "Dubai", RecentDay),
       Row("Warsaw", "Dubai", OldDay),
       Row("Warsaw", "London", RecentDay) >>

\* the row sequences of length n over pool, one per multiset of rows
RowSeqs(pool, n) ==
    {[k \in 1..n |-> pool[ix[k]]] :
        ix \in {f \in [1..n -> DOMAIN pool] :
                   \A i \in 1..n : \A j \in 1..n : i < j => f[i] <= f[j]}}

DirPool ==
    {<<>>, <<File("notes.csv", FALSE, <<>>)>>}
    \cup {<<File("run.csv", TRUE, rs)>> :
            rs \in UNION {RowSeqs(RowPool, n) : n \in 0..MaxRecords}}

Request(bs, hs, ts, rr, n) ==
    [lookback_days |-> 30, min_transfer_minutes |-> 150,
     start_date |-> "", end_date |-> "",
     bases |-> bs, hubs |-> hs, targets |-> ts,
     require_return_to_base |-> rr, top_n |-> n]

\* calls with every selection filled in, and calls with one selection empty
RequestPool ==
    {Request(<<"London Luton">>, hs, <<"Dubai">>, rr, n) :
        hs \in {<<"Budapest">>, <<"Budapest", "Warsaw">>},
        rr \in BOOLEAN,
        n \in 1..MaxTopN}
    \cup {Request(<<>>, <<"Budapest", "Warsaw">>, <<"Dubai">>, rr, 1) :
            rr \in BOOLEAN}
    \cup {Request(<<"London Luton">>, <<>>, <<"Dubai">>, FALSE, 1),
          Request(<<"London Luton">>, <<"Budapest", "Warsaw">>, <<" ">>, FALSE, 1)}

NoCall == [called |-> FALSE]

TypeOK ==
    /\ pc \in {"idle", "done"}
    /\ outcome \in {"none", "ok", "FileNotFoundError", "ValueError"}
    /\ argsort_ties \in {"kept", "reversed"}
    /\ file_count \in Nat
    /\ last_run_count \in Nat

InitPlanner ==
    /\ now = Today
    /\ argsort_ties \in {"kept", "reversed"}
    /\ file_count = 0
    /\ last_run_count = 0
    /\ pc = "idle"
    /\ req = NoCall
    /\ outcome = "none"
    /\ result = <<>>
    /\ prev = NoCall
    /\ last_cutoff = 0
    /\ last_df = <<>>
    /\ last_counts = <<>>

\* no update is running and none has run
UpdaterIdle == [pc |-> "idle", last |-> 0, now |-> 0, data_src |-> <<>>]

InitUpdater ==
    /\ stamp = 0
    /\ upd = UpdaterIdle
    /\ upd_result = "none"
    /\ before = [data_dir |-> <<>>, stamp |-> 0]

Init ==
    /\ data_dir \in DirPool
    /\ InitPlanner
    /\ InitUpdater

(***************************************************************************)
(* One call of AYCFPlanner.suggest_itineraries.  _load_runs raises before  *)
(* it touches file_count; otherwise it records the number of paths and the *)
(* number of distinct source files among the loaded rows.                  *)
(***************************************************************************)
SuggestItineraries(r) ==
    /\ pc = "idle"
    /\ pc' = "done"
    /\ req' = r
    /\ prev' = IF outcome = "none" THEN NoCall
               ELSE [called |-> TRUE, req |-> req, outcome |-> outcome,
                     result |-> result, cutoff |-> last_cutoff]
    /\ outcome' = load_outcome(data_dir)
    /\ IF load_outcome(data_dir) = "ok"
       THEN /\ file_count' = Len(data_dir)
            /\ last_run_count' =
                 Cardinality({f.name : f \in {data_dir[k] : k \in
                     {i \in DOMAIN data_dir :
                         data_dir[i].cols /\ data_dir[i].rows # <<>>}}})
            /\ last_cutoff' = now - r.lookback_days
            /\ last_df' = filter_by_lookback(load_runs(data_dir), now,
                                        r.lookback_days)
            /\ last_counts' = counts_of(data_dir, now, r.lookback_days,
                                        argsort_ties)
            /\ result' = suggest_itineraries(data_dir, now, r, argsort_ties)
       ELSE /\ UNCHANGED <<file_count, last_run_count, locals>>
            /\ result' = <<>>
    /\ UNCHANGED <<data_dir, now, argsort_ties, updater>>

Next == \E r \in RequestPool : SuggestItineraries(r)

Spec == Init /\ [][Next]_vars

(***************************************************************************)
(* The same snapshot rows in another row or file order: between two calls  *)
(* the corpus on disk is replaced by one that holds the same records.      *)
(***************************************************************************)
SwapRows(i, k) ==
    LET rs == data_dir[i].rows
    IN  /\ rs[k] # rs[k + 1]
        /\ data_dir' = [data_dir EXCEPT ![i].rows =
                           [rs EXCEPT ![k] = rs[k + 1], ![k + 1] = rs[k]]]

MoveRow(i, j) ==
    LET rs == data_dir[i].rows
    IN  /\ i # j
        /\ rs # <<>>
        /\ data_dir[i].cols /\ data_dir[j].cols
        /\ data_dir' = [data_dir EXCEPT
                           ![i].rows = SubSeq(rs, 1, Len(rs) - 1),
                           ![j].rows = Append(data_dir[j].rows, rs[Len(rs)])]

Reorder ==
    /\ pc = "done"
    /\ pc' = "idle"
    /\ \/ \E i \in DOMAIN data_dir :
            \E k \in 1..(Len(data_dir[i].rows) - 1) : SwapRows(i, k)
       \/ \E i \in DOMAIN data_dir : \E j \in DOMAIN data_dir : MoveRow(i, j)
    /\ last_df' = <<>>
    /\ last_counts' = <<>>
    /\ UNCHANGED <<now, argsort_ties, file_count, last_run_count,
                   req, outcome, result, prev, last_cutoff, updater>>

OrderPool ==
    << Row("Budapest", "Dubai", RecentDay),
       Row("London", "Budapest", RecentDay),
       Row("London", "Warsaw", RecentDay),
       Row("Warsaw", "Dubai", RecentDay) >>

\* every row sequence of length n over pool
AllRowSeqs(pool, n) ==
    {[k \in 1..n |-> pool[ix[k]]] : ix \in [1..n -> DOMAIN pool]}

OrderDirs(rs) ==
    {<<File("run1.csv", TRUE, SubSeq(rs, 1, cut)),
       File("run2.csv", TRUE, SubSeq(rs, cut + 1, Len(rs)))>> :
        cut \in 0..Len(rs)}

OrderDirPool ==
    UNION {OrderDirs(rs) :
        rs \in UNION {AllRowSeqs(OrderPool, n) : n \in 0..MaxOrderRecords}}

\* top_n = 1: which of two tied candidates is returned shows their order
OrderRequestPool ==
    {Request(<<"London Luton">>, <<"Budapest", "Warsaw">>, <<"Dubai">>, FALSE, 1)}

InitOrder ==
    /\ data_dir \in OrderDirPool
    /\ InitPlanner
    /\ InitUpdater

NextOrder ==
    \/ \E r \in OrderRequestPool : SuggestItineraries(r)
    \/ Reorder

SpecOrder == InitOrder /\ [][NextOrder]_vars

(***************************************************************************)
(* What a finished call is measured against: the appearance counts taken   *)
(* from the rows on disk (a table c from counted pair to count), and the   *)
(* candidates the joins are to produce from those counts.                  *)
(***************************************************************************)
CalledOk == pc = "done" /\ outcome = "ok"

Loadable == \E i \in DOMAIN data_dir : data_dir[i].cols

KeptRows ==
    {p \in UNION {{<<i, k>> : k \in DOMAIN data_dir[i].rows} :
                    i \in DOMAIN data_dir} :
        /\ data_dir[p[1]].cols
        /\ LET g == data_dir[p[1]].rows[p[2]].data_generated
           IN  g < 0 \/ g >= now - req.lookback_days}

CountTable ==
    LET pair == [p \in KeptRows |->
                    <<normalise_city(data_dir[p[1]].rows[p[2]].departure_from),
                      normalise_city(data_dir[p[1]].rows[p[2]].departure_to)>>]
    IN  [q \in {pair[p] : p \in DOMAIN pair} |->
            Cardinality({p \in DOMAIN pair : pair[p] = q})]

Count(c, f, t) == IF <<f, t>> \in DOMAIN c THEN c[<<f, t>>] ELSE 0

B == selections(req).bases_set
H == selections(req).hubs_set
T == selections(req).targets_set

Joined(c) ==
    {j \in B \X H \X T : Count(c, j[1], j[2]) > 0 /\ Count(c, j[2], j[3]) > 0}

ReturnHubs(c, h, t) ==
    IF \E x \in H : Count(c, t, x) > 0
    THEN {x \in H : Count(c, t, x) > 0}
    ELSE {h}

\* <<base, hub, target, return_hub>> of the rows that survive joins and filter
Qualifying(c) ==
    {q \in B \X H \X T \X H :
        /\ Count(c, q[1], q[2]) > 0
        /\ Count(c, q[2], q[3]) > 0
        /\ q[4] \in ReturnHubs(c, q[2], q[3])
        /\ req.require_return_to_base => Count(c, q[4], q[1]) > 0}

\* the score of a qualifying candidate, in hundredths
QualifyingScore(c, q) ==
    100 * Count(c, q[1], q[2]) + 100 * Count(c, q[2], q[3])
    + 120 * Count(c, q[3], q[4])
    + (IF req.require_return_to_base THEN 80 ELSE 30) * Count(c, q[4], q[1])

RowTuple(row) ==
    <<row.itinerary[1], row.itinerary[2], row.itinerary[3], row.return[2]>>

Returned == {RowTuple(result[k]) : k \in DOMAIN result}

NotCut(c) == req.top_n >= Cardinality(Qualifying(c))

Min(a, b) == IF a <= b THEN a ELSE b

NoReturnLeg(c, t) == \A x \in H : Count(c, t, x) = 0

(***************************************************************************)
(* C1: with require_return_to_base every returned row has a positive       *)
(* hub_to_base, the count of (return_hub -> base); without it a candidate  *)
(* whose return hub has no flight to the base is still returned (top_n     *)
(* permitting), with hub_to_base = 0.                                      *)
(***************************************************************************)
C1_ReturnToBase ==
    CalledOk =>
        LET c == CountTable
        IN  /\ req.require_return_to_base =>
                  \A k \in DOMAIN result :
                     /\ result[k].hub_to_base > 0
                     /\ Count(c, result[k].return[2], result[k].return[3]) > 0
            /\ (~req.require_return_to_base /\ NotCut(c)) =>
                  \A j \in Joined(c) : \A rh \in ReturnHubs(c, j[2], j[3]) :
                     Count(c, rh, j[1]) = 0 =>
                        \E k \in DOMAIN result :
                           /\ RowTuple(result[k]) = <<j[1], j[2], j[3], rh>>
                           /\ result[k].hub_to_base = 0

\* a call with the flag set that returns a row and drops another candidate
C1_Witness ==
    /\ CalledOk
    /\ req.require_return_to_base
    /\ result # <<>>
    /\ LET c == CountTable
       IN  \E j \in Joined(c) : \E rh \in ReturnHubs(c, j[2], j[3]) :
              Count(c, rh, j[1]) = 0

(***************************************************************************)
(* C2: the score of every returned row is leg1 + leg2 + 1.2*leg3 + w*leg4  *)
(* over the four counts of the same row, w = 0.8 with the flag and 0.3     *)
(* without (here in hundredths).                                           *)
(***************************************************************************)
C2_Score ==
    CalledOk =>
        \A k \in DOMAIN result :
            result[k].score =
                100 * result[k].base_to_hub + 100 * result[k].hub_to_target
                + 120 * result[k].target_to_hub
                + (IF req.require_return_to_base THEN 80 ELSE 30)
                    * result[k].hub_to_base

\* leg counts (1,1,1,1) with the flag set score 4.0
C2_Witness ==
    /\ CalledOk
    /\ req.require_return_to_base
    /\ \E k \in DOMAIN result :
          /\ result[k].base_to_hub = 1 /\ result[k].hub_to_target = 1
          /\ result[k].target_to_hub = 1 /\ result[k].hub_to_base = 1
          /\ result[k].score = 400

(***************************************************************************)
(* C3: without the flag and with top_n large enough, every (base, hub,     *)
(* target) with a counted base->hub and hub->target pair is the itinerary  *)
(* of a returned row, whatever return legs were observed.                  *)
(***************************************************************************)
C3_JoinedAppear ==
    (CalledOk /\ ~req.require_return_to_base) =>
        LET c == CountTable
        IN  NotCut(c) =>
               \A j \in Joined(c) :
                  \E k \in DOMAIN result : result[k].itinerary = j

\* both hubs are linked, only Dubai -> Warsaw is observed, both are returned
C3_Witness ==
    /\ CalledOk
    /\ ~req.require_return_to_base
    /\ Count(CountTable, "Dubai", "Budapest") = 0
    /\ Count(CountTable, "Dubai", "Warsaw") > 0
    /\ \E k \in DOMAIN result :
          result[k].itinerary = <<"London", "Budapest", "Dubai">>
    /\ \E k \in DOMAIN result :
          result[k].itinerary = <<"London", "Warsaw", "Dubai">>

(***************************************************************************)
(* C4: a joined (base, hub, target) whose target has no counted pair to    *)
(* any selected hub is kept, with target_to_hub = 0 and its own hub as     *)
(* return hub.                                                             *)
(***************************************************************************)
C4_DefaultReturnHub ==
    CalledOk =>
        LET c == CountTable
        IN  /\ \A k \in DOMAIN result :
                  NoReturnLeg(c, result[k].itinerary[3]) =>
                     /\ result[k].target_to_hub = 0
                     /\ result[k].return[2] = result[k].itinerary[2]
            /\ NotCut(c) =>
                  \A j \in Joined(c) :
                     (/\ NoReturnLeg(c, j[3])
                      /\ req.require_return_to_base =>
                            Count(c, j[2], j[1]) > 0) =>
                        <<j[1], j[2], j[3], j[2]>> \in Returned

\* two hubs selected, a returned row without return leg falls back on its hub
C4_Witness ==
    /\ CalledOk
    /\ Cardinality(H) = 2
    /\ \E k \in DOMAIN result :
          /\ NoReturnLeg(CountTable, result[k].itinerary[3])
          /\ result[k].target_to_hub = 0
          /\ result[k].return[2] = result[k].itinerary[2]

C6_ReturnLegCounts ==
    CalledOk =>
        \A k \in DOMAIN result :
            LET c == CountTable
                b == result[k].itinerary[1]
                t == result[k].itinerary[3]
                rh == result[k].return[2]
            IN  /\ result[k].hub_to_base =
                      (IF rh \in H /\ b \in B THEN Count(c, rh, b) ELSE 0)
                /\ result[k].target_to_hub =
                      (IF t \in T /\ rh \in H THEN Count(c, t, rh) ELSE 0)

\* a row returning through another hub, whose count to the base differs
C6_Witness ==
    /\ CalledOk
    /\ \E k \in DOMAIN result :
          /\ result[k].return[2] # result[k].itinerary[2]
          /\ result[k].hub_to_base > 0
          /\ Count(CountTable, result[k].itinerary[2],
                   result[k].itinerary[1]) = 0

(***************************************************************************)
(* C7: the returned list is in non-increasing score order and no           *)
(* qualifying candidate left out by the cut has a higher score than a      *)
(* returned one.                                                           *)
(***************************************************************************)
C7_Ranking ==
    CalledOk =>
        /\ \A k \in DOMAIN result : \A l \in DOMAIN result :
              k < l => result[k].score >= result[l].score
        /\ LET c == CountTable
           IN  \A q \in Qualifying(c) \ Returned : \A k \in DOMAIN result :
                  QualifyingScore(c, q) <= result[k].score

\* the cut leaves out a candidate that scores lower than the returned rows
C7_Witness ==
    /\ CalledOk
    /\ result # <<>>
    /\ LET c == CountTable
       IN  \E q \in Qualifying(c) \ Returned :
              QualifyingScore(c, q) < result[Len(result)].score

(***************************************************************************)
(* C8: the number of returned rows is min(top_n, number of candidates that *)
(* survive the joins and the return-to-base filter).                       *)
(***************************************************************************)
C8_Truncation ==
    CalledOk =>
        Len(result) = Min(req.top_n, Cardinality(Qualifying(CountTable)))

\* more candidates than top_n: the list is cut to top_n rows
C8_Witness ==
    /\ CalledOk
    /\ Cardinality(Qualifying(CountTable)) > req.top_n
    /\ Len(result) = req.top_n

(***************************************************************************)
(* C9: two corpora that hold the same records in another row or file order *)
(* give the same ordered result for the same arguments, tied candidates    *)
(* and the top_n cut included.                                             *)
(***************************************************************************)
C9_OrderIndependent ==
    (pc = "done" /\ prev.called /\ prev.req = req) =>
        /\ prev.outcome = outcome
        /\ prev.result = result

\* two tied candidates, one of them cut, asked again after a reorder
C9_Witness ==
    /\ CalledOk
    /\ prev.called
    /\ prev.req = req
    /\ req.top_n = 1
    /\ LET c == CountTable
       IN  \E q \in Qualifying(c) : \E p \in Qualifying(c) :
              p # q /\ QualifyingScore(c, p) = QualifyingScore(c, q)

(***************************************************************************)
(* C10: on a loadable corpus the call raises nothing and returns the empty *)
(* list when a selection is empty, when the base->hub / hub->target join   *)
(* is empty, and when the return-to-base filter removes every candidate.   *)
(***************************************************************************)
C10_EmptyResult ==
    (pc = "done" /\ Loadable
        /\ LET c == CountTable
           IN  \/ B = {} \/ H = {} \/ T = {}
               \/ Joined(c) = {}
               \/ Qualifying(c) = {}) =>
        /\ outcome = "ok"
        /\ result = <<>>

\* candidates are joined and the return-to-base filter removes them all
C10_Witness ==
    /\ CalledOk
    /\ req.require_return_to_base
    /\ Joined(CountTable) # {}
    /\ Qualifying(CountTable) = {}
    /\ result = <<>>

(***************************************************************************)
(* The aggregator on its own: route_counts(lookback_days) called on a      *)
(* planner whose directory holds up to two snapshot files, some without    *)
(* the required columns, the clock advancing between calls.  The raw       *)
(* data_generated of a record is a day, missing (NaT) or text that does    *)
(* not parse (Unparseable).                                                *)
(***************************************************************************)
Lookbacks == {1, 30}

RouteCounts(lookback_days) ==
    /\ pc = "idle"
    /\ pc' = "done"
    /\ req' = [lookback_days |-> lookback_days]
    /\ outcome' = load_outcome(data_dir)
    /\ IF load_outcome(data_dir) = "ok"
       THEN /\ file_count' = Len(data_dir)
            /\ last_run_count' =
                 Cardinality({f.name : f \in {data_dir[k] : k \in
                     {i \in DOMAIN data_dir :
                         data_dir[i].cols /\ data_dir[i].rows # <<>>}}})
            /\ last_cutoff' = now - lookback_days
            /\ last_df' = filter_by_lookback(load_runs(data_dir), now,
                                             lookback_days)
            /\ last_counts' = counts_of(data_dir, now, lookback_days,
                                        argsort_ties)
       ELSE UNCHANGED <<file_count, last_run_count, locals>>
    /\ UNCHANGED <<data_dir, now, argsort_ties, result, prev, updater>>

\* the call has returned, its frames are released, and time passes before
\* the next call
Tick ==
    /\ pc = "done"
    /\ pc' = "idle"
    /\ now' \in now..(Today + MaxTick)
    /\ last_df' = <<>>
    /\ last_counts' = <<>>
    /\ UNCHANGED <<data_dir, argsort_ties, file_count, last_run_count,
                   req, outcome, result, prev, last_cutoff, updater>>

CountPool ==
    << Row("Budapest", "Dubai", NaT),
       Row("Budapest", "Dubai", OldDay),
       Row("London", "Budapest", RecentDay),
       Row("London (Luton)", "Budapest", OldDay),
       Row("London Luton", "Budapest", Unparseable) >>

\* a file without the required columns still has rows
OtherFile(n) == File(n, FALSE, <<Row("London", "Budapest", RecentDay)>>)

CountFiles(n) ==
    {OtherFile(n)}
    \cup {File(n, TRUE, rs) :
            rs \in UNION {RowSeqs(CountPool, k) : k \in 0..MaxFileRows}}

CountDirPool ==
    {<<>>}
    \cup {<<f>> : f \in CountFiles("run1.csv")}
    \cup {<<f, g>> : f \in CountFiles("run1.csv"), g \in CountFiles("run2.csv")}

InitCounts ==
    /\ data_dir \in CountDirPool
    /\ InitPlanner
    /\ InitUpdater

NextCounts ==
    \/ \E lookback_days \in Lookbacks : RouteCounts(lookback_days)
    \/ Tick

SpecCounts == InitCounts /\ [][NextCounts]_vars

(***************************************************************************)
(* Reference definitions for the aggregator claims.                        *)
(***************************************************************************)
Records ==
    UNION {{<<i, k>> : k \in DOMAIN data_dir[i].rows} : i \in DOMAIN data_dir}

Raw(p) == data_dir[p[1]].rows[p[2]]

Unknown(p) == Raw(p).data_generated \in {NaT, Unparseable}

PairOf(p) ==
    <<normalise_city(Raw(p).departure_from), normalise_city(Raw(p).departure_to)>>

\* the records of the usable files that the window of the last call admits
Admitted ==
    {p \in Records :
        /\ data_dir[p[1]].cols
        /\ Unknown(p) \/ Raw(p).data_generated >= now - req.lookback_days}

CountedPairs == {<<last_counts[k].departure_from, last_counts[k].departure_to>> :
                    k \in DOMAIN last_counts}

(***************************************************************************)
(* C11: _filter_by_lookback keeps a record exactly when its timestamp is   *)
(* unknown (missing or unparseable, neither of which raises) or is not     *)
(* older than now - lookback_days, now being the time of the call; so a    *)
(* pair all of whose records have unknown timestamps is counted for every  *)
(* lookback_days, 1 included.                                              *)
(***************************************************************************)
C11_LookbackFilter ==
    (pc = "done" /\ Loadable) =>
        /\ outcome = "ok"
        /\ last_cutoff = now - req.lookback_days
        /\ Len(last_df) = Cardinality(Admitted)
        /\ \A p \in Records : data_dir[p[1]].cols =>
              LET row == [departure_from |-> PairOf(p)[1],
                          departure_to   |-> PairOf(p)[2],
                          run_ts |-> IF Unknown(p) THEN NaT
                                     ELSE Raw(p).data_generated]
              IN  /\ Cardinality({k \in DOMAIN last_df : last_df[k] = row})
                       = Cardinality({q \in Admitted :
                             /\ PairOf(q) = PairOf(p)
                             /\ Unknown(q) = Unknown(p)
                             /\ Unknown(p) \/ Raw(q).data_generated
                                                = Raw(p).data_generated})
                  /\ Unknown(p) => PairOf(p) \in CountedPairs

\* lookback_days = 1: a record dated exactly at the cutoff and the unknown
\* ones are kept, an older one is dropped, and a pair known only from a
\* record without a timestamp is counted
C11_Witness ==
    /\ pc = "done" /\ outcome = "ok" /\ req.lookback_days = 1
    /\ \E p \in Admitted : Raw(p).data_generated = now - 1
    /\ \E p \in Admitted : Raw(p).data_generated = Unparseable
    /\ \E p \in Records : data_dir[p[1]].cols /\ p \notin Admitted
    /\ \E p \in Admitted :
          /\ Raw(p).data_generated = NaT
          /\ \A q \in Records : PairOf(q) = PairOf(p) => Unknown(q)
          /\ PairOf(p) \in CountedPairs

(***************************************************************************)
(* C12: route_counts returns exactly one row per normalised pair that has  *)
(* a record with an unknown or in-window timestamp, and its appearances is *)
(* the number of such records, every occurrence counted, across files and  *)
(* within a file; a pair whose records are all dated before the cutoff has *)
(* no row.                                                                 *)
(***************************************************************************)
C12_RouteCounts ==
    CalledOk =>
        /\ CountedPairs = {PairOf(p) : p \in Admitted}
        /\ Len(last_counts) = Cardinality(CountedPairs)
        /\ \A k \in DOMAIN last_counts :
              last_counts[k].appearances =
                  Cardinality({p \in Admitted : PairOf(p) =
                      <<last_counts[k].departure_from,
                        last_counts[k].departure_to>>})
        /\ \A p \in Records :
              (\A q \in Records : PairOf(q) = PairOf(p) => q \notin Admitted)
                  => PairOf(p) \notin CountedPairs

\* a pair seen twice in one file and once in the other is counted 3, and a
\* pair seen only before the cutoff has no row
C12_Witness ==
    /\ CalledOk
    /\ \E k \in DOMAIN last_counts :
          /\ last_counts[k].appearances = 3
          /\ \E p \in Admitted : \E q \in Admitted :
                /\ p[1] = q[1] /\ p[2] # q[2] /\ PairOf(p) = PairOf(q)
                /\ PairOf(p) = <<last_counts[k].departure_from,
                                 last_counts[k].departure_to>>
          /\ \E p \in Admitted : p[1] = 2 /\ PairOf(p) =
                <<last_counts[k].departure_from, last_counts[k].departure_to>>
    /\ \E p \in Records :
          /\ data_dir[p[1]].cols
          /\ PairOf(p) \notin CountedPairs

(***************************************************************************)
(* C13: loading raises FileNotFoundError exactly when the directory holds  *)
(* no snapshot file, ValueError exactly when it holds files but none with  *)
(* both departure_from and departure_to, and otherwise succeeds on the     *)
(* rows of the files that have both columns, the others being skipped.     *)
(***************************************************************************)
C13_LoadErrors ==
    pc = "done" =>
        /\ outcome = "FileNotFoundError" <=> data_dir = <<>>
        /\ outcome = "ValueError" <=>
              (data_dir # <<>> /\ \A i \in DOMAIN data_dir : ~data_dir[i].cols)
        /\ outcome = "ok" <=> (\E i \in DOMAIN data_dir : data_dir[i].cols)
        /\ outcome = "ok" =>
              /\ file_count = Len(data_dir)
              /\ last_run_count =
                    Cardinality({i \in DOMAIN data_dir :
                        data_dir[i].cols /\ data_dir[i].rows # <<>>})
              /\ Len(last_df) =
                    Cardinality({p \in Records :
                        /\ data_dir[p[1]].cols
                        /\ Unknown(p) \/ Raw(p).data_generated
                                            >= now - req.lookback_days})

\* a file without the columns, whose record is in the window, next to a
\* usable file: the load succeeds on the usable file's records alone
C13_Witness ==
    /\ CalledOk
    /\ Len(data_dir) = 2 /\ file_count = 2 /\ last_run_count = 1
    /\ \E i \in DOMAIN data_dir :
          /\ ~data_dir[i].cols
          /\ \E k \in DOMAIN data_dir[i].rows :
                data_dir[i].rows[k].data_generated >= now - req.lookback_days
    /\ Len(last_df) = 2

(***************************************************************************)
(* C16: the appearance count is deduplicated by day: a pair that occurs    *)
(* several times in one observation day's snapshot adds 1, so a count      *)
(* never exceeds the number of snapshot files in the window that hold the  *)
(* pair.                                                                   *)
(***************************************************************************)
C16_DedupByDay ==
    CalledOk =>
        \A k \in DOMAIN last_counts :
            last_counts[k].appearances <=
                Cardinality({p[1] : p \in {q \in Admitted : PairOf(q) =
                    <<last_counts[k].departure_from,
                      last_counts[k].departure_to>>}})

(***************************************************************************)
(* Repeated calls of suggest_itineraries on one planner over an unchanged  *)
(* directory, the clock advancing between calls.  The cities are named in  *)
(* the data and in the selections by their aliases as well.  prev is the   *)
(* call before the last one (SuggestItineraries) or an earlier call that   *)
(* other calls have followed (Recall).                                     *)
(***************************************************************************)
Recall(r) ==
    /\ pc = "idle"
    /\ prev.called
    /\ pc' = "done"
    /\ req' = r
    /\ outcome' = load_outcome(data_dir)
    /\ IF load_outcome(data_dir) = "ok"
       THEN /\ file_count' = Len(data_dir)
            /\ last_run_count' =
                 Cardinality({f.name : f \in {data_dir[k] : k \in
                     {i \in DOMAIN data_dir :
                         data_dir[i].cols /\ data_dir[i].rows # <<>>}}})
            /\ last_cutoff' = now - r.lookback_days
            /\ last_df' = filter_by_lookback(load_runs(data_dir), now,
                                             r.lookback_days)
            /\ last_counts' = counts_of(data_dir, now, r.lookback_days,
                                        argsort_ties)
            /\ result' = suggest_itineraries(data_dir, now, r, argsort_ties)
       ELSE /\ UNCHANGED <<file_count, last_run_count, locals>>
            /\ result' = <<>>
    /\ UNCHANGED <<data_dir, now, argsort_ties, prev, updater>>

TimePool ==
    << Row("Budapest", "Dubai", EdgeDay + 1),
       Row("Budapest", "Dubai", RecentDay),
       Row("London", "Budapest", RecentDay),
       Row("London (Luton)", "Budapest", NaT),
       Row("London Luton", "Budapest", EdgeDay) >>

TimeDirPool ==
    {<<>>}
    \cup {<<File("run.csv", TRUE, rs)>> :
            rs \in UNION {RowSeqs(TimePool, n) : n \in 0..MaxTimeRecords}}

\* the same selection, the base named in three ways
TimeRequestPool ==
    {Request(<<b>>, <<"Budapest">>, <<"Dubai">>, FALSE, 1) :
        b \in {"London", "London (Luton)", " London Luton "}}

InitTime ==
    /\ data_dir \in TimeDirPool
    /\ InitPlanner
    /\ InitUpdater

NextTime ==
    \/ \E r \in TimeRequestPool : SuggestItineraries(r)
    \/ \E r \in TimeRequestPool : Recall(r)
    \/ Tick

SpecTime == InitTime /\ [][NextTime]_vars

\* every dated record is on the same side of the cutoff at both calls
SameWindow ==
    \A p \in Records :
        Unknown(p) \/ (Raw(p).data_generated >= prev.cutoff
                          <=> Raw(p).data_generated >= last_cutoff)

(***************************************************************************)
(* C14 as stated: two calls with identical arguments on an unchanged       *)
(* corpus return identical output, whatever calls were made in between and *)
(* however much time passes between the two.                               *)
(***************************************************************************)
C14_IdempotentAnyTime ==
    (pc = "done" /\ prev.called /\ prev.req = req
        /\ last_cutoff - prev.cutoff \in 0..MaxTick) =>
        (prev.outcome = outcome /\ prev.result = result)

(***************************************************************************)
(* C14 amended: two calls with identical arguments on an unchanged corpus  *)
(* return identical output, order included, whatever calls were made in    *)
(* between, provided no dated record has crossed the cutoff                *)
(* now - lookback_days between the two calls.                              *)
(***************************************************************************)
C14_IdempotentSameWindow ==
    (pc = "done" /\ prev.called /\ prev.req = req) =>
        /\ prev.outcome = outcome
        /\ SameWindow => prev.result = result

\* the clock has advanced between two identical calls, no record has left
\* the window, and both returned the same candidate
C14_Witness ==
    /\ CalledOk /\ prev.called /\ prev.req = req
    /\ last_cutoff > prev.cutoff
    /\ \E p \in Admitted : ~Unknown(p)
    /\ SameWindow
    /\ result # <<>> /\ prev.result = result

AliasNames == {"London Luton", "London (Luton)", " London Luton "}

LondonNames == AliasNames \cup {"London"}

\* the arguments of two calls differ at most in the spelling of London
SameButSpelling(r1, r2) ==
    /\ Len(r1.bases) = Len(r2.bases)
    /\ \A k \in DOMAIN r1.bases :
          \/ r1.bases[k] = r2.bases[k]
          \/ r1.bases[k] \in LondonNames /\ r2.bases[k] \in LondonNames
    /\ [r1 EXCEPT !.bases = <<>>] = [r2 EXCEPT !.bases = <<>>]

(***************************************************************************)
(* C15: city names go through the alias table on both sides: records that  *)
(* name London as 'London Luton', 'London (Luton)' or 'London' are counted *)
(* as one endpoint, and a selection naming the city by an alias returns    *)
(* what the canonical name returns.                                        *)
(***************************************************************************)
C15_Aliases ==
    CalledOk =>
        /\ \A k \in DOMAIN last_counts :
              /\ last_counts[k].departure_from \notin AliasNames
              /\ last_counts[k].departure_to \notin AliasNames
              /\ last_counts[k].departure_from = "London" =>
                    last_counts[k].appearances =
                        Cardinality({p \in Admitted :
                            /\ Raw(p).departure_from \in LondonNames
                            /\ Raw(p).departure_to =
                                   last_counts[k].departure_to})
        /\ \A k \in DOMAIN result : result[k].itinerary[1] = "London"
        /\ (prev.called /\ SameButSpelling(prev.req, req)
               /\ prev.cutoff = last_cutoff) => prev.result = result

\* the data spells London in three ways, counted as one base->hub pair, and
\* the call by alias returned the candidate the call by 'London' returned
C15_Witness ==
    /\ CalledOk /\ prev.called
    /\ prev.req.bases = <<"London">> /\ req.bases = <<"London (Luton)">>
    /\ prev.cutoff = last_cutoff
    /\ \A n \in {"London", "London Luton", "London (Luton)"} :
          \E p \in Admitted : Raw(p).departure_from = n
    /\ result # <<>> /\ result[1].base_to_hub = 3
    /\ prev.result = result

(***************************************************************************)
(* The data updater (src/data_updater.py, update_data_if_needed) running   *)
(* beside the planner: the planner's data_dir is cache_root/data.  The     *)
(* update is a sequence of steps, and a planner call can run between any   *)
(* two of them.  rmtree and copytree work file by file; every step of the  *)
(* try block can raise.  stamp is the content of last_update.txt in days,  *)
(* 0 when the file is absent; before is the cache as the update found it.  *)
(***************************************************************************)
RefreshInterval == 1

UpdateStart(force) ==
    /\ upd.pc = "idle"
    /\ before' = [data_dir |-> data_dir, stamp |-> stamp]
    /\ IF ~force /\ now - stamp < RefreshInterval
       THEN /\ upd' = [upd EXCEPT !.pc = "end", !.last = stamp, !.now = now]
            /\ upd_result' = "fresh"
       ELSE /\ upd' = [upd EXCEPT !.pc = "fetch", !.last = stamp, !.now = now]
            /\ UNCHANGED upd_result
    /\ UNCHANGED <<data_dir, now, argsort_ties, file_count, last_run_count,
                   pc, req, outcome, result, prev, locals, stamp>>

UpdaterStep(next_pc, src) ==
    /\ upd' = [upd EXCEPT !.pc = next_pc, !.data_src = src]
    /\ UNCHANGED <<now, argsort_ties, file_count, last_run_count,
                   pc, req, outcome, result, prev, locals, before>>

\* the snapshot files of the data/ folder of the upstream zip
NewFile1 == File("2024-09-13.csv", TRUE,
                 <<Row("London Luton", "Budapest", RecentDay),
                   Row("Budapest", "Dubai", RecentDay)>>)

NewFile2 == File("2024-09-14.csv", TRUE,
                 <<Row("Dubai", "Budapest", RecentDay),
                   Row("Budapest", "London Luton", RecentDay)>>)

UpstreamPool == {<<NewFile1>>, <<NewFile1, NewFile2>>}

\* download, unzip and _extract_data_dir_from_zip succeed
Fetch ==
    /\ upd.pc = "fetch"
    /\ \E src \in UpstreamPool : UpdaterStep("remove", src)
    /\ UNCHANGED <<data_dir, stamp, upd_result>>

FetchFails ==
    /\ upd.pc = "fetch"
    /\ UpdaterStep("except", upd.data_src)
    /\ UNCHANGED <<data_dir, stamp, upd_result>>

\* shutil.rmtree(data_dst) unlinks the next file
RemoveFile ==
    /\ upd.pc = "remove"
    /\ data_dir # <<>>
    /\ data_dir' = Tail(data_dir)
    /\ UpdaterStep("remove", upd.data_src)
    /\ UNCHANGED <<stamp, upd_result>>

RemoveDone ==
    /\ upd.pc = "remove"
    /\ data_dir = <<>>
    /\ UpdaterStep("copy", upd.data_src)
    /\ UNCHANGED <<data_dir, stamp, upd_result>>

RemoveFails ==
    /\ upd.pc = "remove"
    /\ data_dir # <<>>
    /\ UpdaterStep("except", upd.data_src)
    /\ UNCHANGED <<data_dir, stamp, upd_result>>

\* shutil.copytree(data_src, data_dst) copies the next file
CopyFile ==
    /\ upd.pc = "copy"
    /\ Len(data_dir) < Len(upd.data_src)
    /\ data_dir' = Append(data_dir, upd.data_src[Len(data_dir) + 1])
    /\ UpdaterStep("copy", upd.data_src)
    /\ UNCHANGED <<stamp, upd_result>>

CopyDone ==
    /\ upd.pc = "copy"
    /\ Len(data_dir) = Len(upd.data_src)
    /\ UpdaterStep("stamp", upd.data_src)
    /\ UNCHANGED <<data_dir, stamp, upd_result>>

CopyFails ==
    /\ upd.pc = "copy"
    /\ Len(data_dir) < Len(upd.data_src)
    /\ UpdaterStep("except", upd.data_src)
    /\ UNCHANGED <<data_dir, stamp, upd_result>>

\* _write_stamp(stamp_path, now), cleanup, return UpdateResult(updated=True)
WriteStamp ==
    /\ upd.pc = "stamp"
    /\ stamp' = upd.now
    /\ upd_result' = "updated"
    /\ UpdaterStep("end", upd.data_src)
    /\ UNCHANGED data_dir

WriteStampFails ==
    /\ upd.pc = "stamp"
    /\ UpdaterStep("except", upd.data_src)
    /\ UNCHANGED <<data_dir, stamp, upd_result>>

\* except Exception: updated=False when data_dst holds a csv, else re-raise
Except ==
    /\ upd.pc = "except"
    /\ upd_result' = IF data_dir # <<>> THEN "kept" ELSE "raised"
    /\ UpdaterStep("end", upd.data_src)
    /\ UNCHANGED <<data_dir, stamp>>

OldFile1 == File("2024-09-11.csv", TRUE,
                 <<Row("London Luton", "Budapest", OldDay),
                   Row("Budapest", "Dubai", RecentDay)>>)

OldFile2 == File("2024-09-12.csv", TRUE,
                 <<Row("London Luton", "Budapest", RecentDay)>>)

CachePool == {<<>>, <<OldFile1>>, <<OldFile1, OldFile2>>}

RefreshRequestPool ==
    {Request(<<"London Luton">>, <<"Budapest">>, <<"Dubai">>, FALSE, 1)}

InitRefresh ==
    /\ data_dir \in CachePool
    /\ InitPlanner
    /\ stamp \in {0, Today - RefreshInterval, Today}
    /\ upd = UpdaterIdle
    /\ upd_result = "none"
    /\ before = [data_dir |-> <<>>, stamp |-> 0]

NextRefresh ==
    \/ \E r \in RefreshRequestPool : SuggestItineraries(r)
    \/ Tick
    \/ \E force \in BOOLEAN : UpdateStart(force)
    \/ Fetch
    \/ FetchFails
    \/ RemoveFile
    \/ RemoveDone
    \/ RemoveFails
    \/ CopyFile
    \/ CopyDone
    \/ CopyFails
    \/ WriteStamp
    \/ WriteStampFails
    \/ Except

SpecRefresh == InitRefresh /\ [][NextRefresh]_vars

\* an update is between its first and its last step
Refreshing == upd.pc \notin {"idle", "end"}

(***************************************************************************)
(* C17: a scoring call interleaved with a refresh that replaces the data   *)
(* directory, the old and the new corpus both loadable, returns a list at  *)
(* every point of the remove-then-copy sequence: it never raises.          *)
(***************************************************************************)
C17_CallDuringRefresh ==
    [][(/\ pc = "idle" /\ pc' = "done"
        /\ Refreshing
        /\ load_outcome(before.data_dir) = "ok"
        /\ upd.pc \in {"remove", "copy", "stamp"}
              => load_outcome(upd.data_src) = "ok")
          => outcome' = "ok"]_vars

(***************************************************************************)
(* C18: update_data_if_needed replaces cache_root/data atomically: from    *)
(* the start of an update on, the directory a reader finds is the complete *)
(* old content or the complete new content, never missing or partial.      *)
(***************************************************************************)
C18_AtomicReplace ==
    upd.pc # "idle" => data_dir \in {before.data_dir, upd.data_src}

(***************************************************************************)
(* C19: when the cache held csv files before an update and a step of the   *)
(* update fails, the update returns updated=False with the previous data   *)
(* in place and the stamp unchanged; it raises only when there was no      *)
(* cached data; the stamp advances only once the new data is fully in      *)
(* place.                                                                  *)
(***************************************************************************)
C19_FailureKeepsData ==
    /\ (upd_result \in {"kept", "raised"} /\ before.data_dir # <<>>) =>
          /\ upd_result = "kept"
          /\ data_dir = before.data_dir
          /\ stamp = before.stamp
    /\ upd_result = "raised" => before.data_dir = <<>>
    /\ (upd.pc # "idle" /\ stamp # before.stamp) => data_dir = upd.data_src

(***************************************************************************)
(* C20: with either value of require_return_to_base, every returned        *)
(* candidate has its base among the normalised bases, its hub and its      *)
(* return hub among the normalised hubs and its target among the           *)
(* normalised targets, and its base_to_hub and hub_to_target are the       *)
(* positive counts of (base -> hub) and (hub -> target).                   *)
(***************************************************************************)
C20_SelectedEndpoints ==
    CalledOk =>
        LET c == CountTable
        IN  \A k \in DOMAIN result :
               LET row == result[k]
               IN  /\ row.itinerary[1] \in B
                   /\ row.itinerary[2] \in H
                   /\ row.itinerary[3] \in T
                   /\ row.return[2] \in H
                   /\ row.base_to_hub > 0
                   /\ row.base_to_hub =
                         Count(c, row.itinerary[1], row.itinerary[2])
                   /\ row.hub_to_target > 0
                   /\ row.hub_to_target =
                         Count(c, row.itinerary[2], row.itinerary[3])

\* a returned candidate whose return hub is another selected hub, while the
\* data also holds flights from the base and the hub to unselected cities
C20_Witness ==
    /\ CalledOk
    /\ req.require_return_to_base
    /\ \E k \in DOMAIN result : result[k].return[2] # result[k].itinerary[2]
    /\ \E p \in KeptRows :
          /\ normalise_city(Raw(p).departure_from) \in H
          /\ normalise_city(Raw(p).departure_to) \notin T

(***************************************************************************)
(* Calls of suggest_itineraries that differ in min_transfer_minutes,       *)
(* start_date and end_date, on one planner over an unchanged directory.    *)
(***************************************************************************)
ArgsPool ==
    << Row("Budapest", "Dubai", OldDay),
       Row("Budapest", "Dubai", RecentDay),
       Row("London Luton", "Budapest", RecentDay) >>

ArgsDirPool ==
    {<<>>}
    \cup {<<File("run.csv", TRUE, rs)>> :
            rs \in UNION {RowSeqs(ArgsPool, n) : n \in 0..MaxArgsRecords}}

RequestWith(mtm, sd, ed) ==
    [Request(<<"London Luton">>, <<"Budapest">>, <<"Dubai">>, FALSE, 1)
        EXCEPT !.min_transfer_minutes = mtm, !.start_date = sd, !.end_date = ed]

\* the defaults of the form, each of the three arguments changed on its own,
\* and all three changed
ArgsRequestPool ==
    {RequestWith(150, "", ""),
     RequestWith(60, "", ""),
     RequestWith(150, "2024-12-01", ""),
     RequestWith(150, "", "2024-11-01"),
     RequestWith(600, "2024-12-01", "2024-11-01")}

InitArgs ==
    /\ data_dir \in ArgsDirPool
    /\ InitPlanner
    /\ InitUpdater

NextArgs ==
    \/ \E r \in ArgsRequestPool : SuggestItineraries(r)
    \/ Tick

SpecArgs == InitArgs /\ [][NextArgs]_vars

\* the two calls differ at most in the three arguments
SameButIgnored(r1, r2) ==
    [r1 EXCEPT !.min_transfer_minutes = 0, !.start_date = "", !.end_date = ""]
        = [r2 EXCEPT !.min_transfer_minutes = 0, !.start_date = "",
                     !.end_date = ""]

(***************************************************************************)
(* C21: the output of suggest_itineraries does not depend on               *)
(* min_transfer_minutes, start_date or end_date: two calls that differ     *)
(* only in these arguments, on the same corpus at the same time, return    *)
(* identical lists.                                                        *)
(***************************************************************************)
C21_IgnoredArguments ==
    (pc = "done" /\ prev.called /\ SameButIgnored(prev.req, req)
        /\ prev.cutoff = last_cutoff) =>
        /\ prev.outcome = outcome
        /\ prev.result = result

\* a call with the defaults and a call whose dates exclude every dated record
\* of the window, at the same time: both return the same candidate
C21_Witness ==
    /\ CalledOk /\ prev.called
    /\ prev.req = RequestWith(150, "", "")
    /\ req = RequestWith(600, "2024-12-01", "2024-11-01")
    /\ prev.cutoff = last_cutoff
    /\ \A p \in Admitted :
          Unknown(p) \/ Raw(p).data_generated > parse_date(req.end_date)
    /\ result # <<>> /\ prev.result = result

====
